---- MODULE Spec2Model ----
(***************************************************************************)
(* Model of dummyserial.Serial (src/dummyserial/classes.py): a mock serial *)
(* port whose reads are resolved from a table of written payload ->        *)
(* response.  One action per public method; every action models the whole *)
(* method, its error paths included.                                       *)
(*                                                                         *)
(* Python values are modelled as records [kind, data]: kind is the Python  *)
(* type ("bytes", "bytearray", "str", "callable", "None") and data the     *)
(* sequence of its elements, so that b'' and '' are different values of    *)
(* the same length, as they are in Python 3 (setup.py: python >= 3.6).     *)
(***************************************************************************)
EXTENDS Integers, Sequences, FiniteSets, TLC

(* Largest size passed to read(); it exceeds the longest configured        *)
(* response so that every branch of read() is taken.                       *)
MaxSize == 5

Bytes(s) == [kind |-> "bytes", data |-> s]
ByteArray(s) == [kind |-> "bytearray", data |-> s]
Str(s) == [kind |-> "str", data |-> s]
Callable(f) == [kind |-> "callable", data |-> <<f>>]
PyInt(n) == [kind |-> "int", data |-> <<n>>]
None == [kind |-> "None", data |-> <<>>]

(* dummyserial.constants is not part of the sources at hand.               *)
(* NO_DATA_PRESENT is the empty marker the port is constructed with and    *)
(* falls back to (an empty pending buffer, length 0); it is a str, not the *)
(* empty byte string.                                                      *)
NO_DATA_PRESENT == Str(<<>>)

(* DEFAULT_RESPONSE is the distinguished, non-empty marker that read()     *)
(* hands out whole, whatever the size.                                     *)
DEFAULT_RESPONSE == Str(<<"NotFound">>)

DEFAULT_TIMEOUT == 2

(* Payloads and responses of the test scenarios. *)
PING == <<"P", "I", "N", "G">>
PONG == <<"P", "O", "N", "G">>
KeyAB == <<"A", "B">>
RespCD == <<"C", "D">>
KeyE == <<"E">>
KeyX == <<"X">>
KeyQ == <<"Q">>

Payloads == {PING, KeyAB, KeyE, KeyX, KeyQ}

(* tests/test_classes.py: def dummy_method(x): return x *)
dummy_method(x) == x

(* The response tables a port is constructed with: the default (empty)     *)
(* table, and one with static responses, an empty response and a callable. *)
EmptyTable == [k \in {} |-> None]
ScenarioTable ==
    [k \in {Bytes(PING), Bytes(KeyAB), Bytes(KeyE), Bytes(KeyX)} |->
        CASE k = Bytes(PING) -> Bytes(PONG)
          [] k = Bytes(KeyAB) -> Bytes(RespCD)
          [] k = Bytes(KeyE) -> Bytes(<<>>)
          [] k = Bytes(KeyX) -> Callable("dummy_method")]
ResponseTables == {EmptyTable, ScenarioTable}

PortName == "ttyS0"

(* The data a caller passes to write(): bytes, bytearray or str. *)
WriteInputs ==
    {Bytes(p) : p \in Payloads} \cup {ByteArray(p) : p \in Payloads}
        \cup {Str(p) : p \in Payloads}

ReadSizes == -1 .. MaxSize

VARIABLES
    _isOpen,        \* self._isOpen
    port,           \* self.port
    initial_port_name, \* self.initial_port_name
    _waiting_data,  \* self._waiting_data
    responses,      \* self.responses
    timeout,        \* self.timeout
    last,           \* the last call: its arguments, outcome and pre-state
    session         \* the reads made since the last successful write

vars == <<_isOpen, port, initial_port_name, _waiting_data, responses,
          timeout, last, session>>

----------------------------------------------------------------------------
(* Python primitives *)

(* len(x): defined for bytes, bytearray and str; TypeError otherwise. *)
HasLen(x) == x.kind \in {"bytes", "bytearray", "str"}
len(x) == Len(x.data)

(* x[:n] and x[n:] for n >= 0 *)
Min(a, b) == IF a < b THEN a ELSE b
SliceTo(x, n) == [kind |-> x.kind, data |-> SubSeq(x.data, 1, Min(n, Len(x.data)))]
SliceFrom(x, n) == [kind |-> x.kind, data |-> SubSeq(x.data, Min(n, Len(x.data)) + 1, Len(x.data))]

StateOf(o, p, w) == [isOpen |-> o, port |-> p, waiting |-> w]
PreState == StateOf(_isOpen, port, _waiting_data)

Outcome(op, data, size, status, ret, slept) ==
    [op |-> op, data |-> data, size |-> size, status |-> status,
     ret |-> ret, slept |-> slept, pre |-> PreState, preSession |-> session]

(* What happened since the last successful write: data is what was        *)
(* written, sum the sizes asked of the successful reads, acc the bytes     *)
(* they returned, size the size of the latest of them; live says that      *)
(* nothing but successful reads and inWaiting calls came after the write,  *)
(* tracked that sum and acc are complete, and cycle how far a close/open   *)
(* cycle has come ("written", "closed", "reopened").                       *)
NoSession == [data |-> None, sum |-> 0, acc |-> <<>>, live |-> FALSE,
              tracked |-> FALSE, cycle |-> "none", size |-> 0]
Interrupted == [session EXCEPT !.live = FALSE]
SessionAfterWrite(d) ==
    [data |-> d, sum |-> 0, acc |-> <<>>, live |-> TRUE,
     tracked |-> TRUE, cycle |-> "written", size |-> 0]
SessionAfterClose ==
    [session EXCEPT !.live = FALSE,
                    !.cycle = IF @ \in {"written", "reopened"} THEN "closed" ELSE @]
SessionAfterOpen ==
    [session EXCEPT !.live = FALSE,
                    !.cycle = IF @ = "closed" THEN "reopened" ELSE @]

----------------------------------------------------------------------------
(* __init__ leaving the port closed. *)
Init_closed ==
    /\ _isOpen = FALSE
    /\ _waiting_data = NO_DATA_PRESENT
    /\ port = PortName
    /\ initial_port_name = PortName
    /\ responses \in ResponseTables
    /\ timeout = DEFAULT_TIMEOUT
    /\ last = [op |-> "init", data |-> None, size |-> 0, status |-> "ok",
               ret |-> None, slept |-> FALSE,
               pre |-> StateOf(FALSE, PortName, NO_DATA_PRESENT),
               preSession |-> NoSession]
    /\ session = NoSession

(* Serial.__init__ *)
Init ==
    /\ _isOpen = TRUE
    /\ _waiting_data = NO_DATA_PRESENT
    /\ port = PortName
    /\ initial_port_name = PortName
    /\ responses \in ResponseTables
    /\ timeout = DEFAULT_TIMEOUT
    /\ last = [op |-> "init", data |-> None, size |-> 0, status |-> "ok",
               ret |-> None, slept |-> FALSE,
               pre |-> StateOf(TRUE, PortName, NO_DATA_PRESENT),
               preSession |-> NoSession]
    /\ session = NoSession

(* open without the test of self._isOpen. *)
open_status_nocheck(isOpen) == "ok"

(* The exception Serial.open raises, or "ok". *)
open_status(isOpen) == IF isOpen THEN "SerialException" ELSE "ok"

(* open resetting self._waiting_data as well. *)
open_clears ==
    /\ IF open_status(_isOpen) # "ok"
         THEN /\ last' = Outcome("open", None, 0, open_status(_isOpen), None, FALSE)
              /\ session' = Interrupted
              /\ UNCHANGED <<_isOpen, port, _waiting_data>>
         ELSE /\ _isOpen' = TRUE
              /\ port' = initial_port_name
              /\ _waiting_data' = NO_DATA_PRESENT
              /\ last' = Outcome("open", None, 0, "ok", None, FALSE)
              /\ session' = SessionAfterOpen
    /\ UNCHANGED <<initial_port_name, responses, timeout>>

(* Serial.open *)
open ==
    /\ IF open_status(_isOpen) # "ok"
         THEN /\ last' = Outcome("open", None, 0, open_status(_isOpen), None, FALSE)
              /\ session' = Interrupted
              /\ UNCHANGED <<_isOpen, port>>
         ELSE /\ _isOpen' = TRUE
              /\ port' = initial_port_name
              /\ last' = Outcome("open", None, 0, "ok", None, FALSE)
              /\ session' = SessionAfterOpen
    /\ UNCHANGED <<initial_port_name, _waiting_data, responses, timeout>>

(* close flipping self._isOpen. *)
close_isOpen_toggle(isOpen) == ~isOpen

(* self._isOpen after Serial.close *)
close_isOpen(isOpen) == IF isOpen THEN FALSE ELSE isOpen

(* close resetting self._waiting_data as well. *)
close_clears ==
    /\ _isOpen' = close_isOpen(_isOpen)
    /\ port' = "None"
    /\ _waiting_data' = NO_DATA_PRESENT
    /\ last' = Outcome("close", None, 0, "ok", None, FALSE)
    /\ session' = SessionAfterClose
    /\ UNCHANGED <<initial_port_name, responses, timeout>>

(* Serial.close *)
close ==
    /\ _isOpen' = close_isOpen(_isOpen)
    /\ port' = "None"
    /\ last' = Outcome("close", None, 0, "ok", None, FALSE)
    /\ session' = SessionAfterClose
    /\ UNCHANGED <<initial_port_name, _waiting_data, responses, timeout>>

(* The conversion at the head of Serial.write: bytearray -> bytes. *)
write_convert(data) ==
    IF data.kind = "bytearray" THEN Bytes(data.data) ELSE data

(* _check_response falling back to DEFAULT_RESPONSE for an unknown payload. *)
_check_response_default(table, data_in) ==
    IF data_in \in DOMAIN table THEN table[data_in] ELSE DEFAULT_RESPONSE

(* Serial._check_response *)
_check_response(table, data_in) ==
    IF data_in \in DOMAIN table THEN table[data_in] ELSE NO_DATA_PRESENT

(* The exception Serial.write raises, or "ok". *)
write_status(isOpen) == IF ~isOpen THEN "PortNotOpenError" ELSE "ok"

(* write staging the response before the test of self._isOpen. *)
write_stagefirst(data) ==
    LET d == write_convert(data) IN
    /\ _waiting_data' = _check_response(responses, d)
    /\ IF write_status(_isOpen) # "ok"
         THEN /\ last' = Outcome("write", data, 0, write_status(_isOpen), None, FALSE)
              /\ session' = Interrupted
         ELSE /\ last' = Outcome("write", data, 0, "ok", None, FALSE)
              /\ session' = SessionAfterWrite(d)
    /\ UNCHANGED <<_isOpen, port, initial_port_name, responses, timeout>>

(* Serial.write *)
write(data) ==
    LET d == write_convert(data) IN
    /\ IF write_status(_isOpen) # "ok"
         THEN /\ last' = Outcome("write", data, 0, write_status(_isOpen), None, FALSE)
              /\ session' = Interrupted
              /\ UNCHANGED _waiting_data
         ELSE /\ _waiting_data' = _check_response(responses, d)
              /\ last' = Outcome("write", data, 0, "ok", None, FALSE)
              /\ session' = SessionAfterWrite(d)
    /\ UNCHANGED <<_isOpen, port, initial_port_name, responses, timeout>>

(* read comparing the waiting data with NO_DATA_PRESENT in its first test. *)
read_branch_nodata(wd, size) ==
    IF wd = NO_DATA_PRESENT THEN "default"
    ELSE IF ~HasLen(wd) THEN "TypeError"
    ELSE IF size < len(wd) THEN "partial"
    ELSE IF size = len(wd) THEN "exact"
    ELSE "timeout"

(* The branch Serial.read takes on an open port with size >= 0. *)
read_branch(wd, size) ==
    IF wd = DEFAULT_RESPONSE THEN "default"
    ELSE IF ~HasLen(wd) THEN "TypeError"
    ELSE IF size < len(wd) THEN "partial"
    ELSE IF size = len(wd) THEN "exact"
    ELSE "timeout"

(* data_out of Serial.read *)
read_data_out(wd, size) ==
    IF read_branch(wd, size) = "partial" THEN SliceTo(wd, size) ELSE wd

(* read keeping self._waiting_data[size + 1:] after a partial read. *)
read_waiting_data_offbyone(wd, size) ==
    CASE read_branch(wd, size) = "partial" -> SliceFrom(wd, size + 1)
      [] read_branch(wd, size) \in {"exact", "timeout"} -> NO_DATA_PRESENT
      [] OTHER -> wd

(* read not clearing self._waiting_data when size == len. *)
read_waiting_data_noclear(wd, size) ==
    CASE read_branch(wd, size) = "partial" -> SliceFrom(wd, size)
      [] read_branch(wd, size) = "timeout" -> NO_DATA_PRESENT
      [] OTHER -> wd

(* self._waiting_data after Serial.read *)
read_waiting_data(wd, size) ==
    CASE read_branch(wd, size) = "partial" -> SliceFrom(wd, size)
      [] read_branch(wd, size) \in {"exact", "timeout"} -> NO_DATA_PRESENT
      [] OTHER -> wd

(* read sleeping only when nothing at all is waiting. *)
read_sleeps_onlyempty(wd, size) ==
    read_branch(wd, size) = "timeout" /\ len(wd) = 0

(* whether Serial.read calls time.sleep(self.timeout) *)
read_sleeps(wd, size) == read_branch(wd, size) = "timeout"

(* The reads since the last write: sizes asked for (summed, saturating     *)
(* just above the length first staged) and the bytes returned, in order.   *)
SessionAfterRead(size, out) ==
    IF session.tracked
      THEN [session EXCEPT !.sum = Min(@ + size, MaxSize + 1),
                           !.acc = IF Len(@) + Len(out.data) <= MaxSize
                                     THEN @ \o out.data ELSE @,
                           !.tracked = Len(session.acc) + Len(out.data) <= MaxSize,
                           !.live = @ /\ Len(session.acc) + Len(out.data) <= MaxSize,
                           !.size = size]
      ELSE [session EXCEPT !.size = size]

(* read without the test of self._isOpen. *)
read_status_noopencheck(isOpen, wd, size) ==
    IF size < 0 THEN "DSIOError"
    ELSE IF read_branch(wd, size) = "TypeError" THEN "TypeError"
    ELSE "ok"

(* read testing the size before self._isOpen. *)
read_status_sizefirst(isOpen, wd, size) ==
    IF size < 0 THEN "DSIOError"
    ELSE IF ~isOpen THEN "PortNotOpenError"
    ELSE IF read_branch(wd, size) = "TypeError" THEN "TypeError"
    ELSE "ok"

(* The exception Serial.read raises, or "ok". *)
read_status(isOpen, wd, size) ==
    IF ~isOpen THEN "PortNotOpenError"
    ELSE IF size < 0 THEN "DSIOError"
    ELSE IF read_branch(wd, size) = "TypeError" THEN "TypeError"
    ELSE "ok"

(* Serial.read *)
read(size) ==
    /\ IF read_status(_isOpen, _waiting_data, size) # "ok"
         THEN /\ last' = Outcome("read", None, size,
                                 read_status(_isOpen, _waiting_data, size),
                                 None, FALSE)
              /\ session' = Interrupted
              /\ UNCHANGED _waiting_data
         ELSE /\ _waiting_data' = read_waiting_data(_waiting_data, size)
              /\ last' = Outcome("read", None, size, "ok",
                                 read_data_out(_waiting_data, size),
                                 read_sleeps(_waiting_data, size))
              /\ session' = SessionAfterRead(size, read_data_out(_waiting_data, size))
    /\ UNCHANGED <<_isOpen, port, initial_port_name, responses, timeout>>

(* The value Serial.inWaiting returns. *)
inWaiting_value(wd) == len(wd)

(* Serial.inWaiting *)
inWaiting ==
    /\ IF HasLen(_waiting_data)
         THEN last' = Outcome("inWaiting", None, 0, "ok",
                              PyInt(inWaiting_value(_waiting_data)), FALSE)
         ELSE last' = Outcome("inWaiting", None, 0, "TypeError", None, FALSE)
    /\ UNCHANGED <<_isOpen, port, initial_port_name, _waiting_data,
                   responses, timeout, session>>

Next ==
    \/ open
    \/ close
    \/ \E data \in WriteInputs : write(data)
    \/ \E size \in ReadSizes : read(size)
    \/ inWaiting

Spec == Init /\ [][Next]_vars

----------------------------------------------------------------------------
(* Properties *)

IsStatic(table, d) == d \in DOMAIN table /\ table[d].kind = "bytes"
IsCallable(table, d) == d \in DOMAIN table /\ table[d].kind = "callable"

(* The response the documentation selects for a payload: the sentinel for  *)
(* an unknown payload, a static response verbatim, a callable's result.    *)
SelectedResponse(table, d) ==
    IF d \notin DOMAIN table THEN NO_DATA_PRESENT
    ELSE IF table[d].kind = "callable" THEN [d EXCEPT !.data = dummy_method(@)]
    ELSE table[d]

IsPrefix(a, b) == Len(a) <= Len(b) /\ SubSeq(b, 1, Len(a)) = a

ReadOk == last.op = "read" /\ last.status = "ok"

(* A successful read directly after a successful write and, possibly,      *)
(* other successful reads (inWaiting calls apart).                         *)
ReadInSession == ReadOk /\ last.preSession.live

(* C1: after write(P) with P mapped to a static response R, reads whose    *)
(* sizes sum to len(R) return chunks that concatenate to R; each chunk is  *)
(* a prefix of what was pending, and what was returned followed by what is *)
(* still pending is R (nothing lost, duplicated or reordered).             *)
C1_DrainReturnsResponse ==
    /\ (session.live /\ IsStatic(responses, session.data)
            /\ session.sum <= len(responses[session.data]))
        => /\ Len(session.acc) = session.sum
           /\ session.acc \o _waiting_data.data = responses[session.data].data
           /\ (session.sum = len(responses[session.data])
                 => session.acc = responses[session.data].data)
    /\ (ReadInSession /\ IsStatic(responses, last.preSession.data)
            /\ last.preSession.sum + last.size <= len(responses[last.preSession.data]))
        => /\ IsPrefix(last.ret.data, last.pre.waiting.data)
           /\ Len(last.ret.data) = last.size

C1_Witness ==
    /\ ReadInSession
    /\ session.live
    /\ session.data = Bytes(PING)
    /\ last.preSession.sum = 1
    /\ last.size = 3
    /\ session.sum = 4
    /\ session.acc = PONG

(* C2: after write(P) with P not a key of the response table, every        *)
(* read(n), n >= 0, returns NO_DATA_PRESENT.                               *)
C2_UnmappedReadsNoData ==
    (last.op = "read" /\ last.size >= 0 /\ last.preSession.live
        /\ last.preSession.data \notin DOMAIN responses)
    => (last.status = "ok" /\ last.ret = NO_DATA_PRESENT)

C2_Witness ==
    /\ last.op = "read"
    /\ last.size = 3
    /\ last.preSession.live
    /\ last.preSession.sum = 0
    /\ last.preSession.data = Bytes(KeyQ)
    /\ responses = ScenarioTable
    /\ last.ret = NO_DATA_PRESENT

(* C3: a callable response is invoked with the written data and its result *)
(* staged, so that write(P) with an echo callable followed by read(len(P)) *)
(* returns P.                                                              *)
C3_CallableInvoked ==
    /\ (last.op = "write" /\ last.status = "ok"
            /\ IsCallable(responses, write_convert(last.data)))
        => _waiting_data = SelectedResponse(responses, write_convert(last.data))
    /\ (last.op = "read" /\ last.preSession.live /\ last.preSession.sum = 0
            /\ IsCallable(responses, last.preSession.data)
            /\ last.size = len(last.preSession.data))
        => (last.status = "ok" /\ last.ret = last.preSession.data)

PendingBytes == last.pre.isOpen /\ last.pre.waiting.kind = "bytes"

(* C4: with a byte sequence pending on an open port, read(size) with       *)
(* 0 <= size < len(pending) returns the first size bytes and leaves the    *)
(* rest, so inWaiting() is the old count minus size.                       *)
C4_PartialRead ==
    (last.op = "read" /\ PendingBytes
        /\ 0 <= last.size /\ last.size < len(last.pre.waiting))
    => /\ last.status = "ok"
       /\ last.ret = SliceTo(last.pre.waiting, last.size)
       /\ len(last.ret) = last.size
       /\ last.ret.data \o _waiting_data.data = last.pre.waiting.data
       /\ _waiting_data.kind = "bytes"
       /\ inWaiting_value(_waiting_data) = len(last.pre.waiting) - last.size

C4_Witness ==
    /\ last.op = "read"
    /\ last.pre.waiting = Bytes(PONG)
    /\ last.size = 2
    /\ last.ret = Bytes(<<"P", "O">>)
    /\ _waiting_data = Bytes(<<"N", "G">>)
    /\ inWaiting_value(_waiting_data) = 2

(* C5: with a byte sequence pending on an open port, read(size) with       *)
(* size = len(pending) returns all of it and leaves nothing pending:       *)
(* inWaiting() is 0.                                                       *)
C5_ExactRead ==
    (last.op = "read" /\ PendingBytes /\ last.size = len(last.pre.waiting))
    => /\ last.status = "ok"
       /\ last.ret = last.pre.waiting
       /\ _waiting_data.data = <<>>
       /\ inWaiting_value(_waiting_data) = 0

C5_Witness ==
    /\ last.op = "read"
    /\ last.pre.waiting = Bytes(<<"N", "G">>)
    /\ last.size = 2
    /\ last.ret = Bytes(<<"N", "G">>)
    /\ inWaiting_value(_waiting_data) = 0

(* C6: with a byte sequence pending on an open port, read(size) with       *)
(* size > len(pending) sleeps for the timeout, returns exactly what was    *)
(* pending and leaves nothing pending.                                     *)
C6_OversizedRead ==
    (last.op = "read" /\ PendingBytes /\ last.size > len(last.pre.waiting))
    => /\ last.status = "ok"
       /\ last.slept
       /\ last.ret = last.pre.waiting
       /\ _waiting_data.data = <<>>
       /\ inWaiting_value(_waiting_data) = 0

C6_Witness ==
    /\ last.op = "read"
    /\ last.pre.waiting = Bytes(<<"N", "G">>)
    /\ last.size = 3
    /\ last.slept
    /\ last.ret = Bytes(<<"N", "G">>)
    /\ inWaiting_value(_waiting_data) = 0

C8_WriteReplaces ==
    /\ (last.op = "write" /\ last.status = "ok")
        => _waiting_data = SelectedResponse(responses, write_convert(last.data))
    /\ ReadInSession
        => IsPrefix(session.acc,
                    SelectedResponse(responses, last.preSession.data).data)

(* C9: on a closed port write(data) and read(size), size >= 0, raise       *)
(* PortNotOpenError and the port is still closed.                          *)
C9_ClosedPortRaises ==
    (last.op \in {"write", "read"} /\ ~last.pre.isOpen /\ last.size >= 0)
    => /\ last.status = "PortNotOpenError"
       /\ ~_isOpen
       /\ _waiting_data = last.pre.waiting

C9_Witness ==
    /\ last.op = "read"
    /\ last.size = 2
    /\ ~last.pre.isOpen
    /\ last.pre.waiting = Bytes(PONG)
    /\ last.status = "PortNotOpenError"
    /\ ~_isOpen

(* C10 as stated: read(size) with size < 0 raises the invalid-argument     *)
(* error (DSIOError) whether the port is open or closed.                   *)
C10_NegativeSizeAlwaysInvalid ==
    (last.op = "read" /\ last.size < 0) => last.status = "DSIOError"

(* C10 amended: read(size) with size < 0 raises DSIOError on an open port  *)
(* and PortNotOpenError on a closed one; either way the state is as before. *)
C10_NegativeSize ==
    (last.op = "read" /\ last.size < 0)
    => /\ last.status = IF last.pre.isOpen THEN "DSIOError" ELSE "PortNotOpenError"
       /\ PreState = last.pre

C10_Witness ==
    /\ last.op = "read"
    /\ last.size < 0
    /\ ~last.pre.isOpen
    /\ last.status = "PortNotOpenError"

(* C11: open() on an open port raises SerialException and leaves isOpen,   *)
(* the name and the pending output as they were; open() on a closed port   *)
(* succeeds and makes isOpen true.                                         *)
C11_Open ==
    last.op = "open"
    => IF last.pre.isOpen
         THEN last.status = "SerialException" /\ PreState = last.pre
         ELSE last.status = "ok" /\ _isOpen

C11_Witness ==
    /\ last.op = "open"
    /\ last.pre.isOpen
    /\ last.pre.waiting = Bytes(PONG)
    /\ last.status = "SerialException"
    /\ _waiting_data = Bytes(PONG)

(* C12: close() never fails and leaves the port closed, and a close() that *)
(* directly follows a close() changes nothing of isOpen, the name and the  *)
(* pending output.                                                         *)
C12_CloseIdempotent ==
    [][last'.op = "close"
          => /\ last'.status = "ok"
             /\ ~_isOpen'
             /\ (last.op = "close" => PreState' = PreState)]_vars

C12_Witness ==
    /\ last.op = "close"
    /\ ~last.pre.isOpen
    /\ last.pre.port = "None"
    /\ last.pre.waiting = Bytes(PONG)
    /\ ~_isOpen

(* C13 as stated: in every state reached by close() inWaiting() is 0,      *)
(* whatever was pending before the close.                                  *)
C13_CloseClearsPending ==
    /\ (last.op = "close" /\ HasLen(_waiting_data))
        => inWaiting_value(_waiting_data) = 0
    /\ (last.op = "inWaiting" /\ ~last.pre.isOpen /\ last.status = "ok")
        => last.ret = PyInt(0)

(* C13 amended: close() leaves the pending output as it was, so that       *)
(* inWaiting() on the closed port returns what it returned before the      *)
(* close.                                                                  *)
C13_ClosePreservesPending ==
    /\ last.op = "close" => _waiting_data = last.pre.waiting
    /\ (last.op = "inWaiting" /\ ~last.pre.isOpen /\ HasLen(last.pre.waiting))
        => /\ last.status = "ok"
           /\ last.ret = PyInt(len(last.pre.waiting))
           /\ (session.tracked /\ IsStatic(responses, session.data)
                    /\ session.sum <= len(responses[session.data]))
                => last.ret = PyInt(len(responses[session.data]) - session.sum)

C13_Witness ==
    /\ last.op = "inWaiting"
    /\ ~last.pre.isOpen
    /\ session.cycle = "closed"
    /\ session.data = Bytes(PING)
    /\ session.sum = 1
    /\ last.ret = PyInt(3)

(* C14 as stated: after write(P), P mapped to a static response R, then    *)
(* close() and open() with no write in between, a read returns no byte of  *)
(* R.                                                                      *)
C14_PendingDoesNotSurvive ==
    (ReadOk /\ last.preSession.cycle = "reopened"
        /\ IsStatic(responses, last.preSession.data))
    => len(last.ret) = 0

(* C14 amended: pending output survives close() and open(): with no write  *)
(* in between, the reads after the open return, in order, the bytes of R   *)
(* that were pending at the close.                                         *)
C14_PendingSurvivesReopen ==
    /\ (session.tracked /\ session.cycle \in {"closed", "reopened"}
            /\ IsStatic(responses, session.data)
            /\ session.sum <= len(responses[session.data]))
        => session.acc \o _waiting_data.data = responses[session.data].data
    /\ (last.op = "read" /\ last.size >= 0
            /\ last.preSession.cycle = "reopened" /\ last.preSession.tracked
            /\ IsStatic(responses, last.preSession.data)
            /\ last.preSession.sum + last.size
                 <= len(responses[last.preSession.data]))
        => /\ last.status = "ok"
           /\ last.ret.data =
                SubSeq(responses[last.preSession.data].data,
                       last.preSession.sum + 1,
                       last.preSession.sum + last.size)

C14_Witness ==
    /\ last.op = "read"
    /\ last.preSession.cycle = "reopened"
    /\ last.preSession.data = Bytes(PING)
    /\ last.preSession.sum = 1
    /\ last.size = 3
    /\ last.ret = Bytes(<<"O", "N", "G">>)

(* C15: inWaiting() is always defined and >= 0, and no read(size),         *)
(* size >= 0, increases it.                                                *)
C15_PendingCountNeverIncreases ==
    /\ HasLen(_waiting_data)
    /\ inWaiting_value(_waiting_data) >= 0
    /\ (last.op = "read" /\ last.size >= 0)
        => /\ HasLen(last.pre.waiting)
           /\ inWaiting_value(_waiting_data) <= inWaiting_value(last.pre.waiting)

(* C16: a newly constructed port is open and nothing is pending:           *)
(* inWaiting() is 0.                                                       *)
C16_ConstructedOpenEmpty ==
    last.op = "init"
    => /\ _isOpen
       /\ HasLen(_waiting_data)
       /\ inWaiting_value(_waiting_data) = 0
       /\ port = PortName

C16_Witness ==
    /\ last.op = "init"
    /\ _isOpen
    /\ responses = ScenarioTable
    /\ inWaiting_value(_waiting_data) = 0

(* C17: when open, write or read raises, isOpen, the name and the pending  *)
(* output are exactly what they were before the call.                      *)
C17_NoPartialFailure ==
    (last.op \in {"open", "write", "read"} /\ last.status # "ok")
    => PreState = last.pre

C17_Witness ==
    /\ last.op = "write"
    /\ last.status = "PortNotOpenError"
    /\ write_convert(last.data) = Bytes(KeyAB)
    /\ responses = ScenarioTable
    /\ last.pre.waiting = Bytes(PONG)
    /\ _waiting_data = Bytes(PONG)

(* C18: open(), close() and inWaiting() leave the pending output as it     *)
(* was; write and read leave isOpen and the name as they were.             *)
C18_Frame ==
    /\ last.op \in {"open", "close", "inWaiting"}
        => _waiting_data = last.pre.waiting
    /\ last.op \in {"write", "read"}
        => (_isOpen = last.pre.isOpen /\ port = last.pre.port)

C18_Witness ==
    /\ last.op = "close"
    /\ last.pre.isOpen
    /\ last.pre.waiting = Bytes(<<"N", "G">>)
    /\ _waiting_data = Bytes(<<"N", "G">>)

SentinelPending ==
    last.op = "read" /\ last.size >= 0 /\ last.pre.isOpen
        /\ last.pre.waiting = NO_DATA_PRESENT

----------------------------------------------------------------------------
(* The drain loop of the tests (test_write_and_read,                       *)
(* test_write_and_read_no_data_present): one write, then read(n) with a    *)
(* fixed n >= 1 and a look at the pending count, until that count is 0.    *)

DrainWrite == last.op = "init" /\ \E data \in WriteInputs : write(data)

DrainRead ==
    \/ last.op = "write" /\ \E n \in 1 .. MaxSize : read(n)
    \/ /\ last.op = "inWaiting"
       /\ last.status = "ok"
       /\ last.ret # PyInt(0)
       /\ read(session.size)

DrainCount == last.op = "read" /\ last.status = "ok" /\ inWaiting

DrainDone == last.op = "inWaiting" /\ last.status = "ok" /\ last.ret = PyInt(0)

DrainNext == DrainWrite \/ DrainRead \/ DrainCount

(* The loop is sequential code: it takes its next step whenever it has one. *)
DrainSpec == Init /\ [][DrainNext]_vars /\ WF_vars(DrainNext)

(* C20: after any write on the open port, mapped payload or not, the drain *)
(* loop reaches a pending count of 0 after finitely many reads.            *)
C20_DrainTerminates == <>DrainDone

====
